---- MODULE Spec2Model ----
(***************************************************************************)
(* PrintPos: the HTML-to-ESC/POS rendering engine of src/main.py           *)
(* (process_html_for_escpos and its helpers), modelled as state machines   *)
(* over an explicit printer sink.                                          *)
(*                                                                         *)
(* A string is a sequence of one-character strings.  The printer sink `p`  *)
(* is the ordered log of the calls it accepted plus the persistent style   *)
(* those calls leave behind.  A sink call may raise; which attempts raise  *)
(* is an input (a set of attempt indices within one element).              *)
(***************************************************************************)
EXTENDS Integers, Sequences, FiniteSets, TLC

VARIABLES
    paper_size,    \* '80mm' | '58mm' (or an unknown value, which falls back)
    font_size,     \* 'normal' | 'small'
    line_spacing,  \* 'compact' | 'normal' | 'wide'
    test_width,    \* BOOLEAN
    p,             \* the printer sink: [log, align, bold, underline, italic, size, spacing]
    pc,            \* "start" (the entry point is called) | "walk" | "raised" | "done";
                   \* in print_html also "win_render" | "win_cut" | "dummy_render" |
                   \* "dummy_cut" | "returned"
    element,       \* the element (or call) handled by the last step
    doc,           \* the top-level elements handled so far, in document order
    mark,          \* length of the sink's log before the last step
    nproc,         \* number of top-level elements handled so far
    faults,        \* the sets of raising attempts the sink may show per element
    job,           \* print_html: its two printers and its return value
    send           \* send_printer: the request's printer, the print_html calls made
                   \* for it and the response

vars == <<paper_size, font_size, line_spacing, test_width, p, pc, element, doc, mark, nproc, faults,
          job, send>>

-----------------------------------------------------------------------------
(* Bounds of the model                                                     *)

MaxElems == 2      \* top-level elements per document
MaxWords == 3      \* words per paragraph
MaxCols == 3       \* cells per table row
MaxFails == 1      \* sink calls that raise while one element is handled

-----------------------------------------------------------------------------
(* Strings                                                                 *)

RECURSIVE Rep(_, _)
Rep(ch, n) == IF n <= 0 THEN <<>> ELSE <<ch>> \o Rep(ch, n - 1)

Min(a, b) == IF a <= b THEN a ELSE b
Max(a, b) == IF a >= b THEN a ELSE b

RECURSIVE SumSeq(_)
SumSeq(s) == IF s = <<>> THEN 0 ELSE Head(s) + SumSeq(Tail(s))

\* Python s[:n]
Prefix(s, n) == SubSeq(s, 1, Min(Len(s), Max(n, 0)))
\* Python s[n:]
Suffix(s, n) == SubSeq(s, Min(Len(s), Max(n, 0)) + 1, Len(s))

\* Python str.ljust / str.rjust / str.center (CPython: the odd extra space of
\* center goes left exactly when both the margin and the width are odd)
ljust(s, w) == s \o Rep(" ", w - Len(s))
rjust(s, w) == Rep(" ", w - Len(s)) \o s
center(s, w) ==
    IF Len(s) >= w THEN s
    ELSE LET marg == w - Len(s)
             left == (marg \div 2) + (IF marg % 2 = 1 /\ w % 2 = 1 THEN 1 ELSE 0)
         IN  Rep(" ", left) \o s \o Rep(" ", marg - left)

NL == "\n"

-----------------------------------------------------------------------------
(* Layout metrics                                                          *)

Papers == {"80mm", "58mm"}
Fonts == {"normal", "small"}
Categories == {"default", "table", "header", "narrow", "wide"}
Spacings == {"compact", "normal", "wide"}

\* base_widths.get(paper_size, {}).get(font_size, 48)
base_width(paper, font) ==
    IF paper = "80mm" /\ font = "normal" THEN 48
    ELSE IF paper = "80mm" /\ font = "small" THEN 64
    ELSE IF paper = "58mm" /\ font = "normal" THEN 32
    ELSE IF paper = "58mm" /\ font = "small" THEN 42
    ELSE 48

\* Python numbers with at most two decimals are carried in hundredths.
Hundredths(x) == x * 100
IsInteger(h) == h % 100 = 0
int(h) == h \div 100

\* get_char_width, in hundredths of a character: only the 'table' and the
\* 'default' branches pass their result through int().
get_char_width(paper, font, content_type) ==
    LET base == base_width(paper, font) IN
    IF content_type = "table" THEN
        (IF paper = "58mm" THEN Hundredths(base)
         ELSE Hundredths(int(Min(Hundredths(base), base * 100))))
    ELSE IF content_type = "header" THEN Min(Hundredths(base + 4), base * 110)
    ELSE IF content_type = "narrow" THEN Max(Hundredths(base - 8), base * 80)
    ELSE IF content_type = "wide" THEN
        (IF paper = "58mm" THEN Min(Hundredths(base), base * 78)
         ELSE Min(Hundredths(base), base * 70))
    ELSE IF paper = "58mm" THEN Hundredths(int(Hundredths(base)))
    ELSE Hundredths(int(Max(Hundredths(base), base * 159)))

\* The widths the walker uses, as whole characters.
char_width(paper, font) == int(get_char_width(paper, font, "default"))
table_width(paper, font) == int(get_char_width(paper, font, "table"))
hr_width(paper, font) == int(get_char_width(paper, font, "wide"))

-----------------------------------------------------------------------------
(* The printer sink                                                        *)

\* keyword arguments of p.set(); "-" is "not given"
NoKw == [align |-> "-", bold |-> "-", underline |-> "-", italic |-> "-",
         font |-> "-", custom_size |-> "-"]

Call(op, kw, txt, bytes, n) == [op |-> op, kw |-> kw, txt |-> txt, bytes |-> bytes, n |-> n]

set(kw) == Call("set", kw, <<>>, <<>>, 0)
raw(bytes) == Call("_raw", NoKw, <<>>, bytes, 0)
text(s) == Call("text", NoKw, s, <<>>, 0)
block_text(s) == Call("block_text", NoKw, s, <<>>, 0)
ln(n) == Call("ln", NoKw, <<>>, <<>>, n)
\* p.image(image): the bitmap is carried as its size <<width, height>>
image(w, h) == Call("image", NoKw, <<>>, <<w, h>>, 0)
\* p.qr(data, size=n)
qr(data, size) == Call("qr", NoKw, data, <<>>, size)
\* p.barcode(code, type, width=w, height=80, pos="BELOW", font="A")
barcode(code, type, w) ==
    Call("barcode", [NoKw EXCEPT !.font = "A", !.align = "BELOW", !.custom_size = type],
         code, <<w, 80>>, 0)
cut == Call("cut", NoKw, <<>>, <<>>, 0)

ESC == 27
SetSize(n) == raw(<<ESC, 33, n>>)        \* 0x1B 0x21 n
SetSpacing(n) == raw(<<ESC, 51, n>>)     \* 0x1B 0x33 n

EmptySink ==
    [log |-> <<>>, align |-> "left", bold |-> "off", underline |-> "off",
     italic |-> "off", size |-> 0, spacing |-> 0]

Keep(new, old) == IF new = "-" THEN old ELSE new

\* The sink accepts a call: it is logged, and a style call leaves its mark.
Accept(s, c) ==
    LET logged == [s EXCEPT !.log = Append(@, c)] IN
    IF c.op = "set" THEN
        [logged EXCEPT !.align = Keep(c.kw.align, @),
                       !.bold = Keep(c.kw.bold, @),
                       !.underline = Keep(c.kw.underline, @),
                       !.italic = Keep(c.kw.italic, @)]
    ELSE IF c.op = "_raw" /\ c.bytes[2] = 33 THEN [logged EXCEPT !.size = c.bytes[3]]
    ELSE IF c.op = "_raw" /\ c.bytes[2] = 51 THEN [logged EXCEPT !.spacing = c.bytes[3]]
    ELSE logged

(* A thread of control through one handler: the sink, whether an exception *)
(* is in flight, the number of sink calls attempted, and the attempts that *)
(* raise. Attempt 0 in F stands for a sink whose style call p.set is not   *)
(* there at all: every p.set raises.                                       *)
Thread(s, F) == [p |-> s, exc |-> FALSE, k |-> 0, F |-> F]

Do(R, c) ==
    IF R.exc THEN R
    ELSE IF (R.k + 1) \in R.F \/ (0 \in R.F /\ c.op = "set")
    THEN [R EXCEPT !.k = @ + 1, !.exc = TRUE]
    ELSE [R EXCEPT !.k = @ + 1, !.p = Accept(@, c)]

RECURSIVE Run(_, _)
Run(R, calls) == IF calls = <<>> THEN R ELSE Run(Do(R, Head(calls)), Tail(calls))

\* try: body / except: handler
Try(R, body, handler) ==
    LET r == Run(R, body) IN
    IF R.exc THEN R
    ELSE IF r.exc THEN Run([r EXCEPT !.exc = FALSE], handler)
    ELSE r

\* try: body / except: pass (or log only)
TryPass(R, body) == Try(R, body, <<>>)

\* the sets of raising attempts the model draws from
MaxAttempt == 12
FailPatterns == {F \in SUBSET (1..MaxAttempt) : Cardinality(F) <= MaxFails}

-----------------------------------------------------------------------------
(* Text helpers of the walker                                              *)

\* Python "sep".join(parts) for a one-character-string sequence sep
RECURSIVE join(_, _)
join(sep, parts) ==
    IF parts = <<>> THEN <<>>
    ELSE IF Len(parts) = 1 THEN parts[1]
    ELSE parts[1] \o sep \o join(sep, Tail(parts))

\* Python s.split(ch): the pieces between occurrences of ch, empty ones kept
RECURSIVE SplitFrom(_, _, _)
SplitFrom(s, ch, i) ==
    LET js == {j \in i..Len(s) : s[j] = ch} IN
    IF js = {} THEN <<SubSeq(s, i, Len(s))>>
    ELSE LET j == CHOOSE x \in js : \A y \in js : x <= y
         IN  <<SubSeq(s, i, j - 1)>> \o SplitFrom(s, ch, j + 1)

SplitOn(s, ch) == SplitFrom(s, ch, 1)

NonEmpty(w) == w # <<>>

\* Python s.split(): the words between runs of blanks
split(s) == SelectSeq(SplitOn(s, " "), NonEmpty)

\* Python s.strip()
IsSpace(ch) == ch \in {" ", "\n", "\t"}
strip(s) ==
    LET inked == {i \in 1..Len(s) : ~IsSpace(s[i])} IN
    IF inked = {} THEN <<>>
    ELSE SubSeq(s, CHOOSE i \in inked : \A j \in inked : i <= j,
                   CHOOSE i \in inked : \A j \in inked : i >= j)

\* the greedy word-wrap loop of the p branch: <<lines, current_line>>
RECURSIVE WrapWords(_, _, _, _)
WrapWords(words, lines, current_line, width) ==
    IF words = <<>> THEN <<lines, current_line>>
    ELSE
        LET word == Head(words)
            test_line == current_line \o (IF current_line # <<>> THEN <<" ">> \o word ELSE word)
        IN  IF Len(test_line) <= width
            THEN WrapWords(Tail(words), lines, test_line, width)
            ELSE IF current_line # <<>>
            THEN WrapWords(Tail(words), Append(lines, current_line), word, width)
            ELSE WrapWords(Tail(words), Append(lines, Prefix(word, width)),
                           IF Len(word) > width THEN Suffix(word, width) ELSE <<>>, width)

\* wrap_lines without the final "if current_line: lines.append(current_line)"
wrap_lines_dropping_last(txt, width) == WrapWords(split(txt), <<>>, <<>>, width)[1]

\* the lines the p branch prints for a text longer than the width
wrap_lines(txt, width) ==
    LET r == WrapWords(split(txt), <<>>, <<>>, width) IN
    IF r[2] # <<>> THEN Append(r[1], r[2]) ELSE r[1]

-----------------------------------------------------------------------------
(* Render start                                                            *)

spacing_value(spacing) ==
    IF spacing = "compact" THEN 10 ELSE IF spacing = "wide" THEN 60 ELSE 50

\* set_line_spacing: a rejected raw command is logged and swallowed
set_line_spacing(R, spacing) == TryPass(R, <<SetSpacing(spacing_value(spacing))>>)

PaperChars(paper) ==
    IF paper = "80mm" THEN <<"8", "0", "m", "m">>
    ELSE IF paper = "58mm" THEN <<"5", "8", "m", "m">>
    ELSE <<"A", "4">>

Digit(i) == <<"0", "1", "2", "3", "4", "5", "6", "7", "8", "9">>[(i % 10) + 1]

TestHeader == <<"P", "r", "u", "e", "b", "a", " ", "d", "e", " ", "a", "n", "c", "h", "o", " ", "p", "a", "r", "a", " ", "p", "a", "p", "e", "l", " ">>
TestLabel == <<"M", "a", "r", "c", "a", "r", " ", "d", "o", "n", "d", "e", " ", "s", "e", " ", "c", "o", "r", "t", "a", " ", "l", "a", " ", "l", "í", "n", "e", "a">>

print_char_width_test_table_width(R, paper) ==
    TryPass(R, << text(TestHeader \o PaperChars(paper) \o <<":", NL>>),
                  text([i \in 1..65 |-> Digit(i)] \o <<NL>>),
                  text(TestLabel \o <<NL>>),
                  text(Rep("=", int(get_char_width(paper, "normal", "table"))) \o <<NL>>),
                  ln(2) >>)

\* the width test: header, numbered line, label, rule, two line feeds
print_char_width_test(R, paper) ==
    TryPass(R, << text(TestHeader \o PaperChars(paper) \o <<":", NL>>),
                  text([i \in 1..65 |-> Digit(i)] \o <<NL>>),
                  text(TestLabel \o <<NL>>),
                  text(Rep("=", int(get_char_width(paper, "normal", "default"))) \o <<NL>>),
                  ln(2) >>)

\* process_html_for_escpos up to the tree walk
render_start(R, paper, spacing, test) ==
    LET r == set_line_spacing(R, spacing) IN
    IF test THEN print_char_width_test(r, paper) ELSE r

-----------------------------------------------------------------------------
(* Element handlers of process_element                                     *)

KwCenter == [NoKw EXCEPT !.align = "center"]
KwLeft == [NoKw EXCEPT !.align = "left"]
KwBoldOn == [NoKw EXCEPT !.bold = "on"]
KwBoldOff == [NoKw EXCEPT !.bold = "off"]

\* the size byte packed as ((width - 1) << 4) | (height - 1)
heading_size_packed(level) == (9 - level - 1) * 16 + (9 - level - 1)

\* h1 -> 8 ... h6 -> 3
heading_size(level) ==
    IF level = 1 THEN 8 ELSE IF level = 2 THEN 7 ELSE IF level = 3 THEN 6
    ELSE IF level = 4 THEN 5 ELSE IF level = 5 THEN 4 ELSE IF level = 6 THEN 3 ELSE 1

SizeCalls(size) == IF size > 1 THEN <<SetSize(size)>> ELSE <<>>

\* h1..h6 reached by the tree descent
heading(R, level, txt, paper, font) ==
    LET size == heading_size(level)
        padding == Max(0, (char_width(paper, font) - Len(txt)) \div 2)
    IN  Try(R,
            << set([NoKw EXCEPT !.align = "center", !.bold = "off", !.underline = "off"]) >>
               \o SizeCalls(size)
               \o << text(txt), text(<<NL>>), SetSize(0),
                     set([NoKw EXCEPT !.align = "left", !.bold = "off"]) >>,
            << set(KwBoldOn) >> \o SizeCalls(size)
               \o << text(Rep(" ", padding) \o txt \o <<NL>>), SetSize(0), set(KwBoldOff) >>)

\* p: no handler of its own for a raising sink
paragraph(R, txt, paper, font) ==
    LET paragraph_width == int(get_char_width(paper, font, "default")) IN
    Run(R, << set([NoKw EXCEPT !.align = "left", !.bold = "off", !.underline = "off"]),
              SetSize(1),
              IF Len(txt) > paragraph_width
              THEN text(join(<<NL>>, wrap_lines(txt, paragraph_width)) \o <<NL>>)
              ELSE text(txt \o <<NL>>) >>)

\* a text sent centered, with manual padding when the sink rejects a call
centered_text(R, txt, paper, font) ==
    LET padding == Max(0, (char_width(paper, font) - Len(txt)) \div 2)
    IN  Try(R, << set(KwCenter), text(txt), text(<<NL>>), set(KwLeft) >>,
               << text(Rep(" ", padding) \o txt \o <<NL>>) >>)

\* a heading sent centered and bold with its size code
centered_heading(R, level, txt, paper, font) ==
    LET size == heading_size(level)
        padding == Max(0, (char_width(paper, font) - Len(txt)) \div 2)
    IN  Try(R,
            << set([NoKw EXCEPT !.align = "center", !.bold = "on"]) >>
               \o SizeCalls(size)
               \o << text(txt), text(<<NL>>), SetSize(0),
                     set([NoKw EXCEPT !.align = "left", !.bold = "off"]) >>,
            << set(KwBoldOn) >> \o SizeCalls(size)
               \o << text(Rep(" ", padding) \o txt \o <<NL>>), SetSize(0), set(KwBoldOff) >>)

\* b, i, u: the text between a style switch and its reset
inline(R, tag, txt) ==
    LET on == IF tag = "b" THEN KwBoldOn
              ELSE IF tag = "i" THEN [NoKw EXCEPT !.italic = "on"]
              ELSE [NoKw EXCEPT !.underline = "on"]
        off == IF tag = "b" THEN KwBoldOff
               ELSE IF tag = "i" THEN [NoKw EXCEPT !.italic = "off"]
               ELSE [NoKw EXCEPT !.underline = "off"]
    IN  IF txt # <<>> THEN Run(R, << set(on), text(txt \o <<NL>>), set(off) >>) ELSE R

\* <qr>data</qr>
qr_element(R, data, paper) ==
    Run(R, << qr(data, IF paper = "80mm" THEN 8 ELSE 12), text(<<NL>>) >>)

\* img: a base64 picture or a QR picture.  e.src is "-" (no base64 marker),
\* "ok", or a malformed payload: "nocomma", "badb64", "notimage".  A width or
\* height of 0 is "not given".  image.resize raises on a size below 1x1, and
\* nothing catches that.
max_width_px(paper) == IF paper = "80mm" THEN 576 ELSE 384

\* the target size without the final clamp to the paper's pixel width
img_target_size_unclamped(e, paper) ==
    LET maxw == max_width_px(paper)
        width == IF e.style_w # 0 THEN e.style_w ELSE e.attr_w
        height == IF e.style_h # 0 THEN e.style_h ELSE e.attr_h
    IN  IF width # 0 \/ height # 0
        THEN << IF width # 0 THEN width ELSE e.orig_w,
                IF height # 0 THEN height ELSE e.orig_h >>
        ELSE IF e.orig_w > maxw
        THEN << maxw, (maxw * e.orig_h) \div e.orig_w >>
        ELSE << e.orig_w, e.orig_h >>

img_target_size(e, paper) ==
    LET maxw == max_width_px(paper)
        width == IF e.style_w # 0 THEN e.style_w ELSE e.attr_w
        height == IF e.style_h # 0 THEN e.style_h ELSE e.attr_h
        first == IF width # 0 \/ height # 0
                 THEN << IF width # 0 THEN width ELSE e.orig_w,
                         IF height # 0 THEN height ELSE e.orig_h >>
                 ELSE IF e.orig_w > maxw
                 THEN << maxw, (maxw * e.orig_h) \div e.orig_w >>
                 ELSE << e.orig_w, e.orig_h >>
    IN  IF first[1] > maxw THEN << maxw, (maxw * first[2]) \div first[1] >> ELSE first

\* an img branch that still feeds a line for a picture it could not read
img_newline_on_error(R, e, paper) ==
    IF e.src \notin {"-", "ok"} THEN Run(R, << text(<<NL>>) >>)
    ELSE IF e.src = "ok"
    THEN LET size == img_target_size(e, paper)
         IN  TryPass(R, << image(size[1], size[2]), text(<<NL>>) >>)
    ELSE R

img(R, e, paper) ==
    IF e.src # "-" THEN
        IF e.src # "ok" THEN R
        ELSE LET size == img_target_size(e, paper)
             IN  IF R.exc THEN R
                 ELSE IF size[1] < 1 \/ size[2] < 1 THEN [R EXCEPT !.exc = TRUE]
                 ELSE TryPass(R, << image(size[1], size[2]), text(<<NL>>) >>)
    ELSE IF e.data_type = "qr" THEN
        IF e.text # <<>>
        THEN Run(R, << qr(e.text, IF paper = "80mm" THEN 15 ELSE 12), text(<<NL>>) >>)
        ELSE R
    ELSE R

\* <barcode type=...>code</barcode>
barcode_element(R, code, type, paper) ==
    Run(R, << barcode(code, type, IF paper = "80mm" THEN 2 ELSE 1), text(<<NL>>) >>)

-----------------------------------------------------------------------------
(* Table layout                                                            *)

NumericChars == {"0", "1", "2", "3", "4", "5", "6", "7", "8", "9", "$", ".", ","}

\* bool(re.search(r'[\d$...,]+', text))
is_numeric(txt) == \E i \in 1..Len(txt) : txt[i] \in NumericChars

\* IEEE-754 doubles: x * (y / z) falls just below the exact integer quotient
\* for these arguments, so int() yields one less than floor(x*y/z).  The table
\* lists every such case with x <= 70, z <= 300 and y among the cell-text
\* lengths and table widths of this model.
RoundsBelow ==
    {
      <<45, 42, 15>>, <<45, 70, 25>>, <<45, 42, 30>>, <<45, 70, 50>>, <<47, 6, 47>>, <<47, 48, 47>>,
      <<47, 6, 94>>, <<47, 48, 94>>, <<47, 9, 141>>, <<47, 48, 188>>, <<49, 32, 49>>, <<49, 64, 49>>,
      <<49, 32, 98>>, <<49, 64, 98>>, <<49, 6, 147>>, <<49, 48, 147>>, <<49, 32, 196>>, <<49, 64, 196>>,
      <<49, 6, 294>>, <<49, 48, 294>>, <<51, 70, 17>>, <<51, 70, 34>>, <<55, 6, 11>>, <<55, 48, 11>>,
      <<55, 6, 22>>, <<55, 48, 22>>, <<55, 9, 33>>, <<55, 48, 44>>, <<55, 42, 77>>, <<55, 48, 88>>,
      <<55, 42, 154>>, <<55, 42, 165>>, <<55, 48, 176>>, <<55, 70, 275>>, <<69, 42, 23>>, <<69, 42, 46>> }

\* int(x * (y / z)) as Python computes it on doubles
int_mul_ratio(x, y, z) ==
    ((x * y) \div z) - (IF <<x, y, z>> \in RoundsBelow THEN 1 ELSE 0)

\* the single-column row: alignment from the style, numbers to the right
single_align(cell) ==
    LET cell_align == IF cell.align \in {"right", "center"} THEN cell.align ELSE "left"
    IN  IF cell_align = "left" /\ is_numeric(cell.text) THEN "right" ELSE cell_align

align_text(txt, how, width) ==
    LET truncated_text == IF Len(txt) > width THEN Prefix(txt, width) ELSE txt IN
    IF how = "right" THEN rjust(truncated_text, width)
    ELSE IF how = "center" THEN center(truncated_text, width)
    ELSE ljust(truncated_text, width)

single_line(cell, tw) == align_text(cell.text, single_align(cell), tw)

\* style_info of a cell of a multi-column row (0 is None)
width_percent(cell) == IF cell.wkind = "%" THEN cell.wval ELSE 0
width_fixed(cell) ==
    IF cell.wkind = "ch" THEN cell.wval
    ELSE IF cell.wkind = "em" THEN Max(1, (cell.wval * 14) \div 10)
    ELSE IF cell.wkind = "px" THEN Max(1, cell.wval \div 8)
    ELSE 0
multi_align(cell) == IF cell.align \in {"right", "center"} THEN cell.align ELSE "left"

is_flexible(cell) == width_fixed(cell) = 0 /\ width_percent(cell) = 0

\* col_widths before the flexible columns get their share
declared_widths(cells, tw) ==
    [i \in 1..Len(cells) |->
        IF width_percent(cells[i]) # 0 THEN Max(1, (tw * width_percent(cells[i])) \div 100)
        ELSE IF width_fixed(cells[i]) # 0 THEN width_fixed(cells[i])
        ELSE 0]

\* position of column i among the flexible columns, counted from 0
flex_rank(cells, i) == Cardinality({j \in 1..(i - 1) : is_flexible(cells[j])})

\* col_widths after the remaining width is shared among the flexible columns
flexible_widths(cells, tw) ==
    LET base == declared_widths(cells, tw)
        flexible_columns == {i \in 1..Len(cells) : is_flexible(cells[i])}
        remaining_for_flexible == tw - SumSeq(base)
        total_content_length ==
            SumSeq([i \in 1..Len(cells) |-> IF i \in flexible_columns THEN Len(cells[i].text) ELSE 0])
        nflex == Cardinality(flexible_columns)
    IN  IF flexible_columns # {} /\ remaining_for_flexible > 0
        THEN [i \in 1..Len(cells) |->
                IF i \notin flexible_columns THEN base[i]
                ELSE IF total_content_length > 0
                THEN Max(1, int_mul_ratio(remaining_for_flexible, Len(cells[i].text),
                                          total_content_length))
                ELSE Max(1, remaining_for_flexible \div nflex)
                     + (IF flex_rank(cells, i) < remaining_for_flexible % nflex THEN 1 ELSE 0)]
        ELSE base

\* a scale-down that leaves the rounding residue where it is
scale_down_uncorrected(widths, tw) ==
    LET total_width == SumSeq(widths) IN
    IF total_width > tw
    THEN [i \in 1..Len(widths) |-> Max(1, int_mul_ratio(widths[i], tw, total_width))]
    ELSE widths

\* scale down when the columns overflow the table, then fix the residue
scale_down(widths, tw) ==
    LET total_width == SumSeq(widths) IN
    IF total_width > tw
    THEN LET scaled == [i \in 1..Len(widths) |-> Max(1, int_mul_ratio(widths[i], tw, total_width))]
             diff == tw - SumSeq(scaled)
             absdiff == IF diff < 0 THEN 0 - diff ELSE diff
         IN  [i \in 1..Len(widths) |->
                IF i <= Min(absdiff, Len(widths))
                THEN scaled[i] + (IF diff > 0 THEN 1 ELSE -1)
                ELSE scaled[i]]
    ELSE widths

\* column widths with the characters left over handed to the first columns
col_widths_residual_to_first(cells, tw) ==
    LET w == scale_down(flexible_widths(cells, tw), tw)
        left == tw - SumSeq(w)
    IN  [i \in 1..Len(cells) |-> w[i] + (IF i <= left THEN 1 ELSE 0)]

col_widths(cells, tw) == scale_down(flexible_widths(cells, tw), tw)

RECURSIVE Concat(_)
Concat(parts) == IF parts = <<>> THEN <<>> ELSE Head(parts) \o Concat(Tail(parts))

multi_line(cells, tw) ==
    LET w == col_widths(cells, tw) IN
    Concat([i \in 1..Len(cells) |-> align_text(cells[i].text, multi_align(cells[i]), w[i])])

\* a width fix that truncates but never pads
fit_width_truncate_only(line, tw) == IF Len(line) > tw THEN Prefix(line, tw) ELSE line

\* the final width fix
fit_width(line, tw) ==
    IF Len(line) > tw THEN Prefix(line, tw)
    ELSE IF Len(line) < tw THEN ljust(line, tw)
    ELSE line

row_line(cells, tw) ==
    fit_width(IF Len(cells) = 1 THEN single_line(cells[1], tw) ELSE multi_line(cells, tw), tw)

\* a rule character chosen with the class 'solid'/'thick' looked at before
\* dotted and dashed
line_char_solid_first(hr_style, hr_class) ==
    IF "double" \in hr_style \/ "double" \in hr_class THEN "="
    ELSE IF "solid" \in hr_class \/ "thick" \in hr_class THEN "#"
    ELSE "-"

\* fill character of a horizontal rule; hr_style holds the border-style values
\* its style attribute declares, hr_class its class list
line_char(hr_style, hr_class) ==
    IF "double" \in hr_style \/ "double" \in hr_class THEN "="
    ELSE IF "dotted" \in hr_style \/ "dotted" \in hr_class THEN "-"
    ELSE IF "dashed" \in hr_style \/ "dashed" \in hr_class THEN "-"
    ELSE IF "solid" \in hr_class \/ "thick" \in hr_class THEN "#"
    ELSE "-"

KwCenterFont == [NoKw EXCEPT !.align = "center", !.font = "0"]
KwLeftFont == [NoKw EXCEPT !.align = "left", !.font = "0"]
KwCenterCustom == [NoKw EXCEPT !.align = "center", !.font = "0", !.custom_size = "1x1"]

\* a table row holding an <hr>: one rule line instead of the cells
rule_row(R, cells, paper, font, spacing) ==
    LET first == CHOOSE i \in 1..Len(cells) :
                    cells[i].has_hr /\ \A j \in 1..(i - 1) : ~cells[j].has_hr
        horizontal_line ==
            Rep(line_char(cells[first].hr_style, cells[first].hr_class), hr_width(paper, font))
        r1 == Run(R, << set(KwCenterFont), ln(-2), SetSpacing(5),
                        IF paper = "58mm" THEN text(horizontal_line)
                        ELSE block_text(horizontal_line),
                        ln(1) >>)
        r2 == set_line_spacing(r1, spacing)
        r3 == Run(r2, << set(KwLeftFont) >>)
    IN  IF R.exc THEN R
        ELSE IF r3.exc
        THEN Run([r3 EXCEPT !.exc = FALSE],
                 << set(KwCenterCustom), text(horizontal_line), ln(1) >>)
        ELSE r3

\* a stand-alone <hr>
hr(R, e, paper, font, spacing) ==
    LET horizontal_line == Rep(line_char(e.hr_style, e.hr_class), hr_width(paper, font))
        r1 == Run(R, << set(KwCenterFont), ln(-2), SetSpacing(5),
                        text(horizontal_line), ln(1) >>)
        r2 == set_line_spacing(r1, spacing)
    IN  IF R.exc THEN R
        ELSE IF r2.exc
        THEN Run([r2 EXCEPT !.exc = FALSE],
                 << set(KwCenterCustom), text(horizontal_line \o <<NL>>) >>)
        ELSE r2

\* a data or header row: one line of exactly the table width
data_row(R, cells, paper, font) ==
    LET line == row_line(cells, table_width(paper, font))
        has_headers == \E i \in 1..Len(cells) : cells[i].name = "th"
    IN  Run(R, << IF has_headers THEN set([NoKw EXCEPT !.bold = "on", !.align = "center"])
                  ELSE set(KwBoldOff),
                  SetSize(5),
                  IF paper = "58mm" THEN block_text(line) ELSE text(line),
                  SetSize(0),
                  set(KwBoldOff),
                  ln(1) >>)

table_row(R, cells, paper, font, spacing) ==
    IF cells = <<>> THEN R
    ELSE IF \E i \in 1..Len(cells) : cells[i].has_hr
    THEN rule_row(R, cells, paper, font, spacing)
    ELSE data_row(R, cells, paper, font)

\* table: every row in document order; nothing catches a raising sink
RECURSIVE table(_, _, _, _, _)
table(R, rows, paper, font, spacing) ==
    IF rows = <<>> THEN R
    ELSE table(table_row(R, Head(rows), paper, font, spacing), Tail(rows), paper, font, spacing)

-----------------------------------------------------------------------------
(* Documents: the elements the model feeds to the walker                   *)

NoElement ==
    [tag |-> "-", level |-> 0, text |-> <<>>, words |-> <<>>,
     src |-> "-", data_type |-> "-", type |-> "-",
     attr_w |-> 0, attr_h |-> 0, style_w |-> 0, style_h |-> 0, orig_w |-> 0, orig_h |-> 0,
     rows |-> <<>>, F |-> {}, category |-> "-", result |-> 0,
     centered |-> FALSE, children |-> <<>>, hr_style |-> {}, hr_class |-> {}]

Title == <<"T", "I", "T", "L", "E">>
ProductA == <<"P", "r", "o", "d", "u", "c", "t", " ", "A">>
Price == <<"$", "1", "0", ".", "0", "0">>
Code == <<"1", "2", "3", "4", "5">>
LongText == [i \in 1..70 |-> "x"]

HeadingTexts == {<<>>, Title}
ParagraphTexts == {ProductA, LongText \o <<" ">> \o LongText}

\* word k of a paragraph: a three-letter cycle of its own
Letters == << <<"a", "b", "c">>, <<"d", "e", "f">>, <<"g", "h", "i">>, <<"j", "k", "l">>,
              <<"m", "n", "o">> >>
Word(k, n) == [i \in 1..n |-> Letters[((k - 1) % 5) + 1][(i % 3) + 1]]
WordLens == {1, 5, 30, 40, 70, 110}
ParagraphWords ==
    UNION {{[k \in 1..n |-> Word(k, lens[k])] : lens \in [1..n -> WordLens]} : n \in 0..MaxWords}

NoCell ==
    [name |-> "td", text |-> <<>>, align |-> "-", wkind |-> "-", wval |-> 0,
     has_hr |-> FALSE, hr_style |-> {}, hr_class |-> {}, children |-> <<>>]
Cell(txt, align, wkind, wval) ==
    [NoCell EXCEPT !.text = txt, !.align = align, !.wkind = wkind, !.wval = wval]

CellTexts == {<<>>, Price, ProductA, LongText}
Aligns == {"-", "left", "center", "right"}
\* every cell of a single-column row
SingleCells ==
    {Cell(t, a, w[1], w[2]) : t \in CellTexts, a \in Aligns,
                              w \in {<<"-", 0>>, <<"%", 40>>, <<"px", 20>>}}
\* the cells multi-column rows are built from
MultiCells ==
    { Cell(ProductA, "-", "-", 0),     Cell(Price, "right", "-", 0),
      Cell(<<>>, "-", "-", 0),         Cell(LongText, "center", "-", 0),
      Cell(ProductA, "-", "%", 30),    Cell(Price, "right", "%", 30),
      Cell(ProductA, "center", "%", 40), Cell(Price, "left", "%", 60),
      Cell(<<>>, "right", "%", 1),     Cell(ProductA, "right", "px", 20),
      Cell(LongText, "-", "ch", 50),   Cell(Price, "center", "em", 3),
      Cell(ProductA, "-", "%", 50) }
RowCells ==
    {<<c>> : c \in SingleCells}
    \cup UNION {[1..n -> MultiCells] : n \in 2..MaxCols}

AsHeader(cells) == [i \in 1..Len(cells) |-> IF i = 1 THEN [cells[i] EXCEPT !.name = "th"] ELSE cells[i]]

RuleCell(st, cl) == [NoCell EXCEPT !.has_hr = TRUE, !.hr_style = st, !.hr_class = cl]

\* the elements nested documents are built from
H(level, txt) == [NoElement EXCEPT !.tag = "h", !.level = level, !.text = txt]
P(txt) == [NoElement EXCEPT !.tag = "p", !.text = txt, !.words = split(txt)]
Text(txt) == [NoElement EXCEPT !.tag = "#text", !.text = txt]
Tagged(tag, children) == [NoElement EXCEPT !.tag = tag, !.children = children]
Styled(e) == [e EXCEPT !.centered = TRUE]
OkImage == [NoElement EXCEPT !.tag = "img", !.src = "ok", !.orig_w = 100, !.orig_h = 50]
Padded == <<" ">> \o ProductA \o <<"\n">>
\* a cell holding a text and a picture
ImageCell == [Cell(Price, "right", "-", 0) EXCEPT !.children = <<Text(Price), OkImage>>]

\* the small tables of whole documents
SmallTables ==
    { << <<Cell(ProductA, "-", "-", 0), Cell(Price, "right", "-", 0)>> >>,
      << AsHeader(<<Cell(ProductA, "-", "%", 60), Cell(Price, "-", "%", 40)>>),
         <<Cell(Price, "-", "-", 0)>> >>,
      << <<RuleCell({}, {"double"})>>, <<Cell(ProductA, "center", "-", 0)>> >>,
      << <<Cell(ProductA, "-", "-", 0), ImageCell>> >> }

\* a cell holding a text and a table of one row of one cell
NestingCell(txt, inner) ==
    [Cell(txt, "-", "-", 0) EXCEPT
        !.children = <<Text(txt), [NoElement EXCEPT !.tag = "table",
                                                    !.rows = << <<Cell(inner, "-", "-", 0)>> >>]>>]
\* tables with a table inside a cell; no two cells hold the same text
NestedTables ==
    { << <<NestingCell(ProductA, Price)>> >>,
      << <<NestingCell(ProductA, Price), Cell(Code, "right", "-", 0)>> >>,
      << <<Cell(Code, "-", "-", 0)>>, <<NestingCell(Title, ProductA)>> >> }

Images ==
    { [NoElement EXCEPT !.tag = "img", !.src = s, !.orig_w = 600, !.orig_h = 400]
        : s \in {"ok", "nocomma", "badb64", "notimage"} }
    \cup { [NoElement EXCEPT !.tag = "img", !.src = "ok", !.orig_w = 100, !.orig_h = 50,
                             !.attr_w = 200] }
    \cup { [NoElement EXCEPT !.tag = "img", !.data_type = "qr", !.text = t] : t \in {<<>>, Code} }

\* the border-style values and the classes a rule may carry
BorderStyles == {"double", "dotted", "dashed", "solid"}
RuleClasses == {"double", "dotted", "dashed", "solid", "thick"}
RuleStyles == {{}} \cup {{b} : b \in BorderStyles}
RuleClassLists == {c \in SUBSET RuleClasses : Cardinality(c) <= 2}
Rules ==
    { [NoElement EXCEPT !.tag = "hr", !.hr_style = st, !.hr_class = cl]
        : st \in RuleStyles, cl \in RuleClassLists }
\* the cells of rule rows: a text cell, or a cell holding an <hr>
RuleRowCells ==
    { Cell(ProductA, "-", "-", 0) }
    \cup { RuleCell(st, cl) : st \in RuleStyles, cl \in {{}} \cup {{c} : c \in RuleClasses} }
RuleRows == {r \in [1..2 -> RuleRowCells] : \E i \in 1..2 : r[i].has_hr}

\* <center> with one or two children
CenterKids == {H(2, Title), P(ProductA), Text(Padded), OkImage}
Centers == {Tagged("center", kids) : kids \in UNION {[1..n -> CenterKids] : n \in 1..2}}
\* elements whose style holds text-align:center
Styleds ==
    { Styled(P(ProductA)), Styled(H(1, Title)), Styled(Tagged("div", <<Text(Padded)>>)),
      Styled(Tagged("div", <<H(2, Title)>>)), Styled(Tagged("div", <<OkImage>>)),
      Styled(Tagged("span", <<Text(Padded)>>)), Styled(Tagged("div", <<>>)) }
Inlines == {[NoElement EXCEPT !.tag = t, !.text = x] : t \in {"b", "i", "u"}, x \in {<<>>, ProductA}}
Qrs == {[NoElement EXCEPT !.tag = "qr", !.text = x] : x \in {<<>>, Code}}
PlainRules == {[NoElement EXCEPT !.tag = "hr", !.hr_class = cl] : cl \in {{}, {"double"}}}
\* generic containers and unknown tags, whose children are walked
Containers ==
    { Tagged("div", <<OkImage>>), Tagged("div", <<H(2, Title)>>),
      Tagged("div", <<Text(Padded), [NoElement EXCEPT !.tag = "b", !.text = ProductA]>>),
      Tagged("div", <<P(ProductA), OkImage>>),
      Tagged("section", <<Tagged("center", <<OkImage>>)>>),
      Tagged("div", <<Tagged("center", <<H(2, Title)>>)>>),
      Tagged("div", <<Styled(Tagged("div", <<OkImage>>))>>),
      Tagged("div", <<Styled(Tagged("div", <<H(2, Title)>>))>>),
      Tagged("span", <<Tagged("div", <<OkImage>>)>>),
      Tagged("div", <<[NoElement EXCEPT !.tag = "table",
                                        !.rows = << <<Cell(ProductA, "-", "-", 0), ImageCell>> >>]>>) }

\* the documents handed to print_html, and the raising attempts of its sinks
PrintElements ==
    { [NoElement EXCEPT !.tag = "p", !.text = ProductA, !.words = split(ProductA)],
      [NoElement EXCEPT !.tag = "barcode", !.text = Code, !.type = "CODE128"],
      [NoElement EXCEPT !.tag = "h", !.level = 1, !.text = Title] }
PrintDocs == UNION {[1..n -> PrintElements] : n \in 0..MaxElems}
PrintFaults == {F \in FailPatterns : F \subseteq 1..2}

\* source sizes and explicit dimensions (0: not given) of the sized pictures
SourceWidths == {1, 100, 384, 385, 576, 577, 600, 2000}
SourceHeights == {1, 400, 1000}
GivenWidths == {0, 200, 577, 1000}
GivenHeights == {0, 50}
SizedImages ==
    { [NoElement EXCEPT !.tag = "img", !.src = "ok", !.orig_w = ow, !.orig_h = oh,
                        !.attr_w = aw, !.attr_h = ah, !.style_w = sw, !.style_h = sh]
        : ow \in SourceWidths, oh \in SourceHeights,
          aw \in GivenWidths, ah \in GivenHeights, sw \in GivenWidths, sh \in GivenHeights }

-----------------------------------------------------------------------------
(* The tree walk                                                           *)

\* element.get_text(strip=True): the stripped strings below the element, joined
RECURSIVE get_text(_)
get_text(e) ==
    IF e.tag = "img" THEN <<>>
    ELSE IF e.tag = "table"
    THEN Concat([i \in 1..Len(e.rows) |->
                    Concat([j \in 1..Len(e.rows[i]) |-> strip(e.rows[i][j].text)])])
    ELSE IF e.children = <<>> THEN strip(e.text)
    ELSE Concat([i \in 1..Len(e.children) |-> get_text(e.children[i])])

\* the tables directly inside a cell
cell_tables(cell) == SelectSeq(cell.children, LAMBDA c : c.tag = "table")
\* cell.get_text(strip=True): the strings at and below the cell
cell_text(cell) ==
    IF cell.children = <<>> THEN cell.text
    ELSE Concat([i \in 1..Len(cell.children) |-> get_text(cell.children[i])])

\* tr.find_all(["td", "th"]) and element.find_all("tr") search every
\* descendant, in document order: the cells and rows of a table inside a cell
\* are found with the cells and rows around them
RECURSIVE find_all_cells(_)
find_all_cells(cells) ==
    IF cells = <<>> THEN <<>>
    ELSE LET cell == Head(cells)
             inner == cell_tables(cell)
         IN  << [cell EXCEPT !.text = cell_text(cell)] >>
             \o Concat([t \in 1..Len(inner) |->
                    Concat([r \in 1..Len(inner[t].rows) |-> find_all_cells(inner[t].rows[r])])])
             \o find_all_cells(Tail(cells))

RECURSIVE find_all_tr(_)
find_all_tr(rows) ==
    IF rows = <<>> THEN <<>>
    ELSE LET tr == Head(rows) IN
         << find_all_cells(tr) >>
         \o Concat([c \in 1..Len(tr) |->
                Concat([t \in 1..Len(cell_tables(tr[c])) |->
                    find_all_tr(cell_tables(tr[c])[t].rows)])])
         \o find_all_tr(Tail(rows))

RECURSIVE process_element(_, _, _, _, _)
RECURSIVE process_children(_, _, _, _, _)

\* <center>: every child is printed centered from its text alone
RECURSIVE center_element(_, _, _, _)
center_element(R, children, paper, font) ==
    IF children = <<>> THEN R
    ELSE LET child == Head(children)
             txt == get_text(child)
             r == IF child.tag = "h" THEN centered_heading(R, child.level, txt, paper, font)
                  ELSE IF txt # <<>> THEN centered_text(R, txt, paper, font)
                  ELSE R
         IN  center_element(r, Tail(children), paper, font)

\* an element whose style holds the literal text-align:center
centered_element(R, e, paper, font) ==
    LET txt == get_text(e) IN
    IF txt = <<>> THEN R
    ELSE IF e.tag = "h" THEN centered_heading(R, e.level, txt, paper, font)
    ELSE centered_text(R, txt, paper, font)

\* process_element: the elif chain on the tag and the style
process_element(R, e, paper, font, spacing) ==
    IF e.tag = "#text" THEN R
    ELSE IF e.tag = "h" THEN heading(R, e.level, get_text(e), paper, font)
    ELSE IF e.tag = "p" THEN paragraph(R, get_text(e), paper, font)
    ELSE IF e.tag = "center" THEN center_element(R, e.children, paper, font)
    ELSE IF e.centered THEN centered_element(R, e, paper, font)
    ELSE IF e.tag \in {"b", "i", "u"} THEN inline(R, e.tag, get_text(e))
    ELSE IF e.tag = "img" THEN img(R, e, paper)
    ELSE IF e.tag = "barcode" THEN barcode_element(R, get_text(e), e.type, paper)
    ELSE IF e.tag = "table" THEN table(R, find_all_tr(e.rows), paper, font, spacing)
    ELSE IF e.tag = "hr" THEN hr(R, e, paper, font, spacing)
    ELSE IF e.tag = "qr" THEN qr_element(R, get_text(e), paper)
    ELSE process_children(R, e.children, paper, font, spacing)

\* for child in element.children: process_element(child)
process_children(R, children, paper, font, spacing) ==
    IF children = <<>> \/ R.exc THEN R
    ELSE process_children(process_element(R, Head(children), paper, font, spacing),
                          Tail(children), paper, font, spacing)

\* for element in body.children: process_element(element); e.F are the sink
\* attempts that raise while e is handled.  The first exception ends the walk.
RECURSIVE walk(_, _, _, _, _)
walk(s, elements, paper, font, spacing) ==
    IF elements = <<>> THEN [p |-> s, exc |-> FALSE]
    ELSE LET R == process_element(Thread(s, Head(elements).F), Head(elements),
                                  paper, font, spacing)
         IN  IF R.exc THEN [p |-> R.p, exc |-> TRUE]
             ELSE walk(R.p, Tail(elements), paper, font, spacing)

\* a render that ends by cutting the paper itself
process_html_for_escpos_cutting(s, elements, paper, font, spacing, test) ==
    LET started == render_start(Thread(s, {}), paper, spacing, test)
        r == walk(started.p, elements, paper, font, spacing)
    IN  IF r.exc THEN r ELSE [r EXCEPT !.p = Accept(@, cut)]

\* the whole render: [p |-> the sink afterwards, exc |-> whether it raised]
process_html_for_escpos(s, elements, paper, font, spacing, test) ==
    LET started == render_start(Thread(s, {}), paper, spacing, test)
    IN  walk(started.p, elements, paper, font, spacing)

-----------------------------------------------------------------------------
(* The state machine                                                       *)

\* what the steps of a render never change: its parameters, the sink's faults and
\* the printers of print_html
config == <<paper_size, font_size, line_spacing, test_width, faults, job, send>>

\* a printer object of print_html: whether it was made and is open, its sink,
\* how the render on it ended, and the cuts issued on it
NoPrinter == [state |-> "none", p |-> EmptySink, render |-> "-", cuts |-> 0]
NoJob == [win |-> NoPrinter, dummy |-> NoPrinter, returned |-> "-"]
\* a request of send_printer before it is looked at
NoSend == [printer |-> "-", WIN32_AVAILABLE |-> FALSE, calls |-> <<>>, success |-> FALSE,
           status |-> "-"]

\* process_html_for_escpos is entered with a fresh sink
InitWith(papers, fonts, spacings, tests, faultsets) ==
    /\ paper_size \in papers
    /\ font_size \in fonts
    /\ line_spacing \in spacings
    /\ test_width \in tests
    /\ faults \in faultsets
    /\ p = EmptySink
    /\ pc = "start"
    /\ element = NoElement
    /\ doc = <<>>
    /\ mark = 0
    /\ nproc = 0
    /\ job = NoJob
    /\ send = NoSend

\* set_line_spacing, the width and the optional width test; then the walk begins
Start ==
    /\ pc = "start"
    /\ \E F \in faults :
        LET R == render_start(Thread(p, F), paper_size, line_spacing, test_width) IN
        /\ p' = R.p
        /\ pc' = IF R.exc THEN "raised" ELSE "walk"
        /\ element' = [NoElement EXCEPT !.tag = "start", !.F = F]
    /\ mark' = Len(p.log)
    /\ UNCHANGED <<config, doc, nproc>>

\* the walk reaches the next top-level element e; the sink raises at attempts F
Handle(e, F) ==
    LET R == process_element(Thread(p, F), e, paper_size, font_size, line_spacing) IN
    /\ p' = R.p
    /\ pc' = IF R.exc THEN "raised" ELSE "walk"
    /\ element' = [e EXCEPT !.F = F]
    /\ doc' = Append(doc, [e EXCEPT !.F = F])
    /\ mark' = Len(p.log)
    /\ nproc' = nproc + 1
    /\ UNCHANGED config

Heading ==
    /\ pc = "walk" /\ nproc < MaxElems
    /\ \E level \in 1..6, txt \in HeadingTexts, F \in faults :
        Handle([NoElement EXCEPT !.tag = "h", !.level = level, !.text = txt], F)

Paragraph ==
    /\ pc = "walk" /\ nproc < MaxElems
    /\ \E txt \in ParagraphTexts, F \in faults :
        Handle([NoElement EXCEPT !.tag = "p", !.text = txt, !.words = split(txt)], F)

Img ==
    /\ pc = "walk" /\ nproc < MaxElems
    /\ \E e \in Images, F \in faults : Handle(e, F)

Barcode ==
    /\ pc = "walk" /\ nproc < MaxElems
    /\ \E F \in faults :
        Handle([NoElement EXCEPT !.tag = "barcode", !.text = Code, !.type = "CODE128"], F)

Table ==
    /\ pc = "walk" /\ nproc < MaxElems
    /\ \E rows \in SmallTables, F \in faults :
        Handle([NoElement EXCEPT !.tag = "table", !.rows = rows], F)

\* body.children is exhausted: process_html_for_escpos returns
Finish ==
    /\ pc = "walk"
    /\ pc' = "done"
    /\ UNCHANGED <<config, p, element, doc, mark, nproc>>

\* a document that is one paragraph of up to MaxWords words
WrapParagraph ==
    /\ pc = "walk" /\ nproc = 0
    /\ \E words \in ParagraphWords, gap \in 1..2, F \in faults :
        Handle([NoElement EXCEPT !.tag = "p", !.text = join(Rep(" ", gap), words),
                                 !.words = words], F)

\* a document that is one table of one row of up to MaxCols cells
TableRow ==
    /\ pc = "walk" /\ nproc = 0
    /\ \E cells \in RowCells, th \in BOOLEAN, F \in faults :
        Handle([NoElement EXCEPT !.tag = "table",
                                 !.rows = <<IF th THEN AsHeader(cells) ELSE cells>>], F)

\* a document that is one base64 picture
SizedImg ==
    /\ pc = "walk" /\ nproc = 0
    /\ \E e \in SizedImages, F \in faults : Handle(e, F)

PlainRule ==
    /\ pc = "walk" /\ nproc < MaxElems
    /\ \E e \in PlainRules, F \in faults : Handle(e, F)

Center ==
    /\ pc = "walk" /\ nproc < MaxElems
    /\ \E e \in Centers, F \in faults : Handle(e, F)

StyledElement ==
    /\ pc = "walk" /\ nproc < MaxElems
    /\ \E e \in Styleds, F \in faults : Handle(e, F)

Inline ==
    /\ pc = "walk" /\ nproc < MaxElems
    /\ \E e \in Inlines, F \in faults : Handle(e, F)

Qr ==
    /\ pc = "walk" /\ nproc < MaxElems
    /\ \E e \in Qrs, F \in faults : Handle(e, F)

NestedTable ==
    /\ pc = "walk" /\ nproc < MaxElems
    /\ \E rows \in NestedTables, F \in faults :
        Handle([NoElement EXCEPT !.tag = "table", !.rows = rows], F)

Container ==
    /\ pc = "walk" /\ nproc < MaxElems
    /\ \E e \in Containers, F \in faults : Handle(e, F)

\* a document that is one <hr>
Hr ==
    /\ pc = "walk" /\ nproc = 0
    /\ \E e \in Rules, F \in faults : Handle(e, F)

\* a document that is one table of one row holding an <hr>
RuleRow ==
    /\ pc = "walk" /\ nproc = 0
    /\ \E cells \in RuleRows, F \in faults :
        Handle([NoElement EXCEPT !.tag = "table", !.rows = <<cells>>], F)

\* print_html is called: the Win32Raw printer is opened when win32print is
\* there and the open succeeds, else the Dummy printer is made
PrintHtmlOpen ==
    /\ pc = "start"
    /\ \E html \in PrintDocs, WIN32_AVAILABLE \in BOOLEAN, opens \in BOOLEAN :
        /\ doc' = html
        /\ IF WIN32_AVAILABLE /\ opens
           THEN /\ job' = [job EXCEPT !.win.state = "open"]
                /\ pc' = "win_render"
           ELSE /\ job' = [job EXCEPT !.dummy.state = "made"]
                /\ pc' = "dummy_render"
    /\ p' = EmptySink
    /\ element' = [NoElement EXCEPT !.tag = "print_html"]
    /\ UNCHANGED <<paper_size, font_size, line_spacing, test_width, faults, mark, nproc, send>>

\* process_html_for_escpos(p, html_content, ...) on the printer p is bound to;
\* a raise on Win32Raw falls through to a fresh Dummy, a raise on Dummy ends
\* print_html with (False, message)
PrintHtmlRender ==
    /\ pc \in {"win_render", "dummy_render"}
    /\ \E Fs \in [1..Len(doc) -> faults] :
        LET r == process_html_for_escpos(p, [i \in 1..Len(doc) |-> [doc[i] EXCEPT !.F = Fs[i]]],
                                         paper_size, font_size, line_spacing, test_width)
            how == IF r.exc THEN "raised" ELSE "returned"
        IN  IF pc = "win_render"
            THEN /\ job' = [job EXCEPT !.win.p = r.p, !.win.render = how,
                                        !.dummy.state = IF r.exc THEN "made" ELSE @]
                 /\ p' = IF r.exc THEN EmptySink ELSE r.p
                 /\ pc' = IF r.exc THEN "dummy_render" ELSE "win_cut"
            ELSE /\ job' = [job EXCEPT !.dummy.p = r.p, !.dummy.render = how,
                                        !.returned = IF r.exc THEN "error" ELSE @]
                 /\ p' = r.p
                 /\ pc' = IF r.exc THEN "returned" ELSE "dummy_cut"
    /\ UNCHANGED <<paper_size, font_size, line_spacing, test_width, faults, element, doc, mark,
                   nproc, send>>

\* p.cut(), then on Win32Raw p.close(), then the return; either call may raise
PrintHtmlCut ==
    /\ pc \in {"win_cut", "dummy_cut"}
    /\ \E cut_raises \in BOOLEAN, close_raises \in BOOLEAN :
        LET after == IF cut_raises THEN p ELSE Accept(p, cut) IN
        IF pc = "win_cut"
        THEN /\ job' = [job EXCEPT
                            !.win.p = after, !.win.cuts = @ + 1,
                            !.win.state = IF cut_raises \/ close_raises THEN @ ELSE "closed",
                            !.dummy.state = IF cut_raises \/ close_raises THEN "made" ELSE @,
                            !.returned = IF cut_raises \/ close_raises THEN @ ELSE "ok"]
             /\ p' = IF cut_raises \/ close_raises THEN EmptySink ELSE after
             /\ pc' = IF cut_raises \/ close_raises THEN "dummy_render" ELSE "returned"
        ELSE /\ job' = [job EXCEPT !.dummy.p = after, !.dummy.cuts = @ + 1,
                                    !.returned = IF cut_raises THEN "error" ELSE "debug"]
             /\ p' = after
             /\ pc' = "returned"
    /\ UNCHANGED <<paper_size, font_size, line_spacing, test_width, faults, element, doc, mark,
                   nproc, send>>

\* one call print_html(request.printer, request.html, size, font, test, spacing)
\* and whether it returned success
print_html_call(size, font, test, spacing, ok) ==
    [paper_size |-> size, font_size |-> font, test_width |-> test, line_spacing |-> spacing,
     success |-> ok]
\* the call is made, and the handler goes on at next (or answers)
Attempt(call, next) ==
    /\ send' = [send EXCEPT !.calls = Append(@, call), !.success = call.success,
                            !.status = IF next = "responded" THEN "200" ELSE @]
    /\ pc' = next
    /\ UNCHANGED <<paper_size, font_size, line_spacing, test_width, faults, job, p, element, doc,
                   mark, nproc>>

\* the printers a request may name: the virtual one, one whose name holds
\* "usb", one whose name holds "network", and a system printer
PrinterNames == {"Impresora_Virtual", "usb", "network", "system"}

\* POST /send_printer up to the first system-printer method: the checks, the
\* virtual printer, the USB and the network printer
SendPrinter ==
    /\ pc = "start"
    /\ \E printer \in PrinterNames, blank \in BOOLEAN, win32 \in BOOLEAN, ok \in BOOLEAN :
        LET request == [NoSend EXCEPT !.printer = printer, !.WIN32_AVAILABLE = win32] IN
        IF paper_size \notin {"80mm", "58mm"} \/ blank
        THEN /\ send' = [request EXCEPT !.status = "400"]
             /\ pc' = "responded"
        ELSE IF printer = "Impresora_Virtual"
        THEN /\ send' = [request EXCEPT !.success = TRUE, !.status = "200"]
             /\ pc' = "responded"
        ELSE IF printer \in {"usb", "network"}
        THEN /\ send' = [request EXCEPT
                            !.calls = << print_html_call(paper_size, font_size, test_width,
                                                         line_spacing, ok) >>,
                            !.success = ok, !.status = "200"]
             /\ pc' = "responded"
        ELSE /\ send' = request
             /\ pc' = "method1"
    /\ UNCHANGED <<paper_size, font_size, line_spacing, test_width, faults, job, p, element, doc,
                   mark, nproc>>

\* system printer, method 1
Method1 ==
    /\ pc = "method1"
    /\ \E ok \in BOOLEAN :
        Attempt(print_html_call(paper_size, font_size, test_width, line_spacing, ok),
                IF ok THEN "responded"
                ELSE IF send.WIN32_AVAILABLE THEN "method2" ELSE "method3")

\* system printer, method 2: if not success and WIN32_AVAILABLE
Method2 ==
    /\ pc = "method2"
    /\ \E ok \in BOOLEAN :
        Attempt(print_html_call(paper_size, font_size, test_width, line_spacing, ok),
                IF ok THEN "responded" ELSE "method3")

\* system printer, method 3: if not success; the call passes no line_spacing,
\* so print_html takes its default 'normal'
Method3 ==
    /\ pc = "method3"
    /\ \E ok \in BOOLEAN :
        Attempt(print_html_call(paper_size, font_size, test_width, "normal", ok), "responded")

\* a call of get_char_width on its own
Measure ==
    /\ \E ct \in Categories \cup {"other"} :
        element' = [NoElement EXCEPT !.tag = "get_char_width", !.category = ct,
                       !.result = get_char_width(paper_size, font_size, ct)]
    /\ UNCHANGED <<config, p, pc, doc, mark, nproc>>

NoFaults == {{{}}}
Defaults == InitWith(Papers, Fonts, {"normal"}, {FALSE}, NoFaults)

\* whole documents on a sink that never raises
Init == Defaults
Next == Start \/ Heading \/ Paragraph \/ Img \/ Barcode \/ Table \/ Finish
Spec == Init /\ [][Next]_vars

\* whole documents on a sink that may raise
InitFail == InitWith(Papers, {"normal"}, {"normal"}, {FALSE}, {FailPatterns})
SpecFail == InitFail /\ [][Next]_vars

\* whole documents with every kind of element, nested ones included
NextTree ==
    \/ Start \/ Heading \/ Paragraph \/ Img \/ Barcode \/ Table \/ PlainRule
    \/ Center \/ StyledElement \/ Inline \/ Qr \/ Container \/ NestedTable \/ Finish
SpecTree == Defaults /\ [][NextTree]_vars

\* paragraphs
NextWrap == Start \/ WrapParagraph \/ Finish
SpecWrap == Defaults /\ [][NextWrap]_vars

\* table rows
NextTable == Start \/ TableRow \/ Finish
SpecTable == Defaults /\ [][NextTable]_vars

\* pictures
NextImg == Start \/ SizedImg \/ Finish
SpecImg == Defaults /\ [][NextImg]_vars

\* horizontal rules, on a sink that never raises and on one that may
NextRule == Start \/ Hr \/ RuleRow \/ Finish
SpecRule == Defaults /\ [][NextRule]_vars
SpecRuleFail == InitFail /\ [][NextRule]_vars

\* headings and centered content on a sink whose p.set may be missing
StyleFaults == {{}, {0}}
InitStyle == InitWith(Papers, Fonts, {"normal"}, {FALSE}, {StyleFaults})
NextStyle == Start \/ Heading \/ Center \/ Finish
SpecStyle == InitStyle /\ [][NextStyle]_vars

\* headings and paragraphs behind the optional width test
InitTest == InitWith(Papers, Fonts, {"normal"}, BOOLEAN, NoFaults)
NextTest == Start \/ Heading \/ Paragraph \/ Finish
SpecTest == InitTest /\ [][NextTest]_vars

\* send_printer
InitSend == InitWith(Papers \cup {"A4"}, Fonts, Spacings, BOOLEAN, NoFaults)
NextSend == SendPrinter \/ Method1 \/ Method2 \/ Method3
SpecSend == InitSend /\ [][NextSend]_vars

\* print_html
InitPrint == InitWith(Papers, {"normal"}, {"normal"}, {FALSE}, {PrintFaults})
NextPrint == PrintHtmlOpen \/ PrintHtmlRender \/ PrintHtmlCut
SpecPrint == InitPrint /\ [][NextPrint]_vars

\* layout metrics, unknown papers and fonts included
InitMetrics ==
    InitWith(Papers \cup {"A4"}, Fonts \cup {"large"}, Spacings, BOOLEAN, NoFaults)
NextMetrics == Start \/ Measure
SpecMetrics == InitMetrics /\ [][NextMetrics]_vars

\* the output the last handled element added to the sink's log
Output == SubSeq(p.log, mark + 1, Len(p.log))

-----------------------------------------------------------------------------
(* Properties                                                              *)

\* the documented widths, written out
DocumentedBase ==
    IF paper_size = "80mm" THEN (IF font_size = "normal" THEN 48 ELSE 64)
    ELSE (IF font_size = "normal" THEN 32 ELSE 42)

Walked == pc \in {"walk", "done"}

(* C1: while an element is rendered, a raising sink call is caught at that  *)
(* element's boundary, and no sink exception propagates out of the tree     *)
(* walk: process_html_for_escpos never ends by raising.                     *)
C1_SinkExceptionsAreContained == pc # "raised"

\* the one row of the table handled last, and the line printed for it
Row == element.rows[1]
RowCalls == SelectSeq(Output, LAMBDA c : c.op \in {"text", "block_text"})
RowLine == RowCalls[1].txt
OneRowTable == element.tag = "table" /\ Walked /\ Len(element.rows) = 1

(* C2: every table data or header row is sent to the sink as one line of    *)
(* exactly the table width (48/64 on 80mm, 32/42 on 58mm).                  *)
C2_RowLineHasTableWidth ==
    OneRowTable => /\ Len(RowCalls) = 1
                   /\ Len(RowLine) = DocumentedBase

\* a three-column row with a 70-character cell was cut to 64 characters
C2_Witness ==
    /\ OneRowTable /\ paper_size = "80mm" /\ font_size = "small"
    /\ Len(Row) = 3
    /\ \E i \in 1..3 : Len(Row[i].text) = 70
    /\ Len(RowLine) = 64

\* the lines of the paragraph handled last, as printed
ParagraphText == Output[3].txt
PrintedLines == SplitOn(Prefix(ParagraphText, Len(ParagraphText) - 1), NL)
ParagraphDone == element.tag = "p" /\ Walked /\ Len(Output) = 3
DefaultWidth == IF paper_size = "58mm" THEN DocumentedBase ELSE (DocumentedBase * 159) \div 100

(* C3: every line the p handler prints is at most the default width long;   *)
(* an over-long word is hard-split wherever it occurs.                      *)
C3_WrappedLinesFit ==
    ParagraphDone => \A i \in 1..Len(PrintedLines) : Len(PrintedLines[i]) <= DefaultWidth

NotBlank(ch) == ch # " "

(* C4: when no word is longer than the wrap width, the printed lines joined *)
(* with single spaces hold exactly the paragraph's words in their order;    *)
(* in every case the non-blank characters of the lines, concatenated, are   *)
(* the concatenation of the words.                                          *)
C4_WrapKeepsWords ==
    ParagraphDone =>
        /\ (\A k \in 1..Len(element.words) : Len(element.words[k]) <= DefaultWidth)
              => split(join(<<" ">>, PrintedLines)) = element.words
        /\ SelectSeq(Concat(PrintedLines), NotBlank) = Concat(element.words)

\* three words, one of them over-long, wrapped onto three or more lines
C4_Witness ==
    /\ ParagraphDone
    /\ Len(element.words) = 3
    /\ \E k \in 1..3 : Len(element.words[k]) > DefaultWidth
    /\ Len(PrintedLines) >= 3

\* three words that all fit, wrapped onto two or more lines
C4_WitnessFitting ==
    /\ ParagraphDone
    /\ Len(element.words) = 3
    /\ \A k \in 1..3 : Len(element.words[k]) <= DefaultWidth
    /\ Len(PrintedLines) >= 2

Truncated(txt, w) == IF Len(txt) > w THEN Prefix(txt, w) ELSE txt

(* C5: in a single-column row a numeric cell without text-align is          *)
(* right-aligned, and a cell with an explicit text-align:left is            *)
(* left-aligned even when its text is numeric.                              *)
C5_SingleColumnAlignment ==
    (OneRowTable /\ Len(Row) = 1) =>
        /\ (Row[1].align = "-" /\ is_numeric(Row[1].text))
              => RowLine = rjust(Truncated(Row[1].text, DocumentedBase), DocumentedBase)
        /\ Row[1].align = "left"
              => RowLine = ljust(Truncated(Row[1].text, DocumentedBase), DocumentedBase)

(* C6: on 80mm/normal the row 'Product A' | '$10.00' (second cell           *)
(* text-align:right, no widths) is one line of 48 characters that starts    *)
(* with 'Product A' and ends, at character 48, with '$10.00'.               *)
C6_ProductRowFlush ==
    (/\ OneRowTable /\ paper_size = "80mm" /\ font_size = "normal"
     /\ Row = <<Cell(ProductA, "-", "-", 0), Cell(Price, "right", "-", 0)>>)
    => /\ Len(RowLine) = 48
       /\ SubSeq(RowLine, 1, 9) = ProductA
       /\ SubSeq(RowLine, 43, 48) = Price

\* a multi-column row whose cells all declare a percentage width
AllPercent == Len(Row) >= 2 /\ \A i \in 1..Len(Row) : Row[i].wkind = "%" /\ Row[i].wval > 0
PercentWidths == [i \in 1..Len(Row) |-> Max(1, (DocumentedBase * Row[i].wval) \div 100)]
Residual == DocumentedBase - SumSeq(PercentWidths)
CellAlign(c) == IF c.align \in {"right", "center"} THEN c.align ELSE "left"
\* the row line built from the given column widths
LineOf(widths) ==
    Concat([i \in 1..Len(Row) |-> align_text(Row[i].text, CellAlign(Row[i]), widths[i])])

C8_WidthIsPositiveInteger ==
    (/\ element.tag = "get_char_width" /\ element.category \in Categories
     /\ paper_size \in Papers /\ font_size \in Fonts)
    => /\ element.result > 0
       /\ IsInteger(element.result)
       /\ element.category = "table" => element.result = 100 * DocumentedBase
       /\ element.category = "narrow"
             => element.result = Max(100 * (DocumentedBase - 8), 80 * DocumentedBase)
       /\ element.category = "header"
             => element.result = Min(100 * (DocumentedBase + 4), 110 * DocumentedBase)
       /\ element.category = "wide"
             => element.result = Min(100 * DocumentedBase,
                                     (IF paper_size = "58mm" THEN 78 ELSE 70) * DocumentedBase)

Malformed(e) == e.tag = "img" /\ e.src \in {"nocomma", "badb64", "notimage"}
WellFormed(e) == ~Malformed(e)

(* C9: an img whose base64 payload is malformed adds nothing to the sink    *)
(* and raises nothing: the sink holds exactly what rendering the document   *)
(* without its malformed img elements puts there.                           *)
C9_MalformedImageSkipped ==
    pc # "start" =>
        LET started == render_start(Thread(EmptySink, {}), paper_size, line_spacing, test_width)
            without == walk(started.p, SelectSeq(doc, WellFormed),
                            paper_size, font_size, line_spacing)
        IN  /\ p = without.p
            /\ (pc = "raised") = without.exc

\* an undecodable img followed by a paragraph that was printed
C9_Witness ==
    /\ Len(doc) = 2 /\ pc = "walk"
    /\ doc[1].tag = "img" /\ doc[1].src = "badb64"
    /\ doc[2].tag = "p"
    /\ Len(Output) = 3
    /\ Len(p.log) = 4

(* C10: a top-level heading hN on a sink that does not raise sends, in this *)
(* order and with nothing else: center alignment, the size command          *)
(* 0x1B 0x21 (9-N), the text, a newline, the size command 0x1B 0x21 0, and  *)
(* left alignment.                                                          *)
C10_HeadingSequence ==
    (element.tag = "h" /\ element.F = {} /\ Walked) =>
        /\ Len(Output) = 6
        /\ Output[1].op = "set" /\ Output[1].kw.align = "center"
        /\ Output[2] = raw(<<27, 33, 9 - element.level>>)
        /\ Output[3] = text(element.text)
        /\ Output[4] = text(<<"\n">>)
        /\ Output[5] = raw(<<27, 33, 0>>)
        /\ Output[6].op = "set" /\ Output[6].kw.align = "left"

\* <h1>TITLE</h1> on 58mm
C10_Witness ==
    /\ element.tag = "h" /\ element.level = 1 /\ element.text = Title
    /\ paper_size = "58mm" /\ pc = "walk"
    /\ Output[2] = raw(<<27, 33, 8>>)

\* the picture handled last, its explicit dimensions and the size sent to the sink
Picture == element.tag = "img" /\ element.src = "ok" /\ pc # "start"
GivenW == IF element.style_w # 0 THEN element.style_w ELSE element.attr_w
GivenH == IF element.style_h # 0 THEN element.style_h ELSE element.attr_h
PaperPixels == IF paper_size = "80mm" THEN 576 ELSE 384
Resized == img_target_size(element, paper_size)

(* C11: the width handed to the resize never exceeds the paper's pixel      *)
(* width (576 on 80mm, 384 on 58mm); without explicit dimensions a source   *)
(* wider than that becomes maximum x floor(maximum*orig_h/orig_w) (600x400  *)
(* on 80mm gives 576x384) and a source within it keeps its native size; the *)
(* picture sent to the sink has the resized dimensions.                     *)
C11_ImageWidthClamped ==
    Picture =>
        /\ Resized[1] <= PaperPixels
        /\ (GivenW = 0 /\ GivenH = 0 /\ element.orig_w > PaperPixels)
              => Resized = <<PaperPixels, (PaperPixels * element.orig_h) \div element.orig_w>>
        /\ (GivenW = 0 /\ GivenH = 0 /\ element.orig_w <= PaperPixels)
              => Resized = <<element.orig_w, element.orig_h>>
        /\ (paper_size = "80mm" /\ GivenW = 0 /\ GivenH = 0
              /\ element.orig_w = 600 /\ element.orig_h = 400) => Resized = <<576, 384>>
        /\ pc = "walk" => /\ Len(Output) = 2
                          /\ Output[1] = image(Resized[1], Resized[2])
                          /\ Output[1].bytes[1] <= PaperPixels

\* a 600x400 picture with style width 1000px went out 384 wide on 58mm
C11_Witness ==
    /\ Picture /\ pc = "walk" /\ paper_size = "58mm"
    /\ element.orig_w = 600 /\ element.orig_h = 400
    /\ element.style_w = 1000 /\ element.attr_w = 200
    /\ Output[1].op = "image" /\ Output[1].bytes[1] = 384

\* the rule handled last: a stand-alone hr, or the first hr of a rule row
IsRule == element.tag = "hr" \/ (element.tag = "table" /\ Len(element.rows) = 1
                                  /\ \E i \in 1..Len(Row) : Row[i].has_hr)
FirstRule ==
    IF element.tag = "hr" THEN element
    ELSE Row[CHOOSE i \in 1..Len(Row) : Row[i].has_hr /\ \A j \in 1..(i - 1) : ~Row[j].has_hr]
RuleTokens == FirstRule.hr_style \cup FirstRule.hr_class
RuleChar ==
    IF "double" \in RuleTokens THEN "="
    ELSE IF RuleTokens \cap {"dotted", "dashed"} # {} THEN "-"
    ELSE IF FirstRule.hr_class \cap {"solid", "thick"} # {} THEN "#"
    ELSE "-"
RuleWidth == ((IF paper_size = "58mm" THEN 78 ELSE 70) * DocumentedBase) \div 100
RuleLines == SelectSeq(Output, LAMBDA c : c.op \in {"text", "block_text"})

(* C12: the fill character of a rule is '=' for border-style:double or     *)
(* class double; otherwise '-' for dotted or dashed (style or class);       *)
(* otherwise '#' for class solid or thick; otherwise '-'.  A table rule row *)
(* takes the character of the first hr found in its cells.  The rule is one *)
(* line of that character.                                                  *)
C12_RuleCharacter ==
    (IsRule /\ Walked) =>
        /\ Len(RuleLines) = 1
        /\ RuleLines[1].txt = Rep(RuleChar, RuleWidth)

\* <hr class="thick" style="border-style:dashed"> printed as 33 dashes
C12_Witness ==
    /\ element.tag = "hr" /\ pc = "walk"
    /\ element.hr_style = {"dashed"} /\ element.hr_class = {"thick"}
    /\ paper_size = "80mm" /\ font_size = "normal"
    /\ RuleLines[1].txt = Rep("-", 33)

\* the cut calls a sink accepted
Cuts(log) == Len(SelectSeq(log, LAMBDA c : c.op = "cut"))
Printers == {job.win, job.dummy}

(* C13: the render never sends a cut to the sink.  In print_html a cut is   *)
(* issued at most once on each printer, only after the render on that       *)
(* printer returned without raising, and then always; an accepted cut is    *)
(* the last call that printer's sink holds.                                 *)
C13_CutOnceAfterRender ==
    /\ pc \in {"win_cut", "dummy_cut"} => Cuts(p.log) = 0
    /\ \A u \in Printers :
        /\ u.cuts <= 1
        /\ u.cuts = 1 => u.render = "returned"
        /\ u.render = "raised" => Cuts(u.p.log) = 0
        /\ Cuts(u.p.log) <= u.cuts
        /\ Cuts(u.p.log) = 1 => u.p.log[Len(u.p.log)].op = "cut"
        /\ (pc = "returned" /\ u.render = "returned") => u.cuts = 1

\* the Win32Raw render raised, and the Dummy was rendered and cut
C13_Witness ==
    /\ pc = "returned" /\ job.returned = "debug"
    /\ job.win.render = "raised" /\ job.win.cuts = 0 /\ Len(job.win.p.log) >= 2
    /\ job.dummy.cuts = 1 /\ Len(job.dummy.p.log) >= 5
    /\ job.dummy.p.log[Len(job.dummy.p.log)].op = "cut"

(* C14: when print_html returns, every Win32Raw connection it opened has    *)
(* been closed, whichever way it returns.                                   *)
C14_ConnectionClosed == pc = "returned" => job.win.state # "open"

\* the sink's style when the k-th call of its log arrived
RECURSIVE Replay(_, _)
Replay(s, calls) == IF calls = <<>> THEN s ELSE Replay(Accept(s, Head(calls)), Tail(calls))
StyleAt(k) == Replay(EmptySink, SubSeq(p.log, 1, k - 1))
\* positions in the log of the lines the last element printed
IsLine(k) == p.log[k].op \in {"text", "block_text"}
LinePositions == SelectSeq([i \in 1..Len(Output) |-> mark + i], IsLine)
Handled == nproc >= 1 /\ Walked

(* C15: after every top-level element handled on a sink that never raises,  *)
(* the sink's style is back at its defaults: alignment left, bold off,      *)
(* underline off, character size code 0.                                    *)
C15_StyleRestored ==
    Handled => /\ p.align = "left" /\ p.bold = "off"
               /\ p.underline = "off" /\ p.size = 0

\* a table without rule rows and without empty rows was handled last
PlainTable ==
    /\ element.tag = "table" /\ Handled
    /\ \A r \in 1..Len(element.rows) :
          element.rows[r] # <<>> /\ \A c \in 1..Len(element.rows[r]) : ~element.rows[r][c].has_hr
HasHeaders(cells) == \E c \in 1..Len(cells) : cells[c].name = "th"

(* C16: a data row (no th cell) is emitted while the sink's alignment is    *)
(* left and bold is off, a header row while alignment is center and bold is *)
(* on, whatever rows came before it.                                        *)
C16_RowStyle ==
    PlainTable =>
        /\ Len(LinePositions) = Len(element.rows)
        /\ \A r \in 1..Len(element.rows) :
              LET st == StyleAt(LinePositions[r]) IN
              IF HasHeaders(element.rows[r])
              THEN st.align = "center" /\ st.bold = "on"
              ELSE st.align = "left" /\ st.bold = "off"

(* C17: once the handling of a horizontal rule has completed, on the normal *)
(* path or on the fallback path, the line spacing the sink last accepted is *)
(* the caller's preset (10, 50 or 60), never the rule's temporary 5.        *)
C17_SpacingRestored ==
    (IsRule /\ Walked) => p.spacing \in {0, spacing_value(line_spacing)}

(* C18: an element whose style holds text-align:center and that has text is *)
(* printed, and every text it sends arrives while the sink's alignment is   *)
(* center, whatever its tag (p and h1..h6 included).                        *)
C18_StyledIsCentered ==
    (Handled /\ element.centered /\ get_text(element) # <<>>) =>
        /\ LinePositions # <<>>
        /\ \A i \in 1..Len(LinePositions) : StyleAt(LinePositions[i]).align = "center"

\* the element that decides the centering: the element handled last, or its
\* only child when it is a plain container
Inner ==
    IF element.tag \in {"div", "section", "span"} /\ ~element.centered /\ Len(element.children) = 1
    THEN element.children[1] ELSE element
CenteringWrapper == Inner.tag = "center" \/ (Inner.centered /\ Inner.tag \notin {"h", "p"})
SizedBetween(c) ==
    \E i, j, k \in 1..Len(Output) :
        /\ i < j /\ j < k
        /\ Output[i] = raw(<<27, 33, 9 - c.level>>)
        /\ Output[j].op = "text" /\ Output[j].txt = c.text
        /\ Output[k] = raw(<<27, 33, 0>>)

(* C19: a heading hN that is a child of <center>, or of an element whose    *)
(* style holds text-align:center, is sent with its size code: 0x1B 0x21     *)
(* (9-N) before its text and 0x1B 0x21 0 after it.                          *)
C19_NestedHeadingSized ==
    (Handled /\ CenteringWrapper) =>
        \A n \in 1..Len(Inner.children) :
            Inner.children[n].tag = "h" => SizedBetween(Inner.children[n])

\* the well-formed base64 img elements at or below an element, table cells included
RECURSIVE WellFormedImages(_)
WellFormedImages(e) ==
    IF e.tag = "img" THEN (IF e.src = "ok" THEN 1 ELSE 0)
    ELSE IF e.tag = "table"
    THEN SumSeq([r \in 1..Len(e.rows) |->
            SumSeq([c \in 1..Len(e.rows[r]) |->
                SumSeq([k \in 1..Len(e.rows[r][c].children) |->
                    WellFormedImages(e.rows[r][c].children[k])])])])
    ELSE SumSeq([k \in 1..Len(e.children) |-> WellFormedImages(e.children[k])])
ImageCalls == SelectSeq(Output, LAMBDA c : c.op = "image")

(* C20: every well-formed base64 img under the body is sent to the sink as  *)
(* exactly one image, whatever its ancestors: container, <center>, element  *)
(* with text-align:center, table cell.                                      *)
C20_EveryImageOnce == Handled => Len(ImageCalls) = WellFormedImages(element)

\* a multi-column row was handled last; its widths before the scale-down and after
MultiColumn == OneRowTable /\ Len(Row) >= 2
Resolved == flexible_widths(Row, DocumentedBase)
Final == col_widths(Row, DocumentedBase)

(* C21: in a multi-column row whose resolved column widths sum to more than *)
(* the table width, the widths after scaling and residual correction sum to *)
(* exactly the table width, and the row line is built from those widths.    *)
C21_ScaledWidthsSumToTable ==
    (MultiColumn /\ SumSeq(Resolved) > DocumentedBase) =>
        /\ SumSeq(Final) = DocumentedBase
        /\ RowLine = LineOf(Final)

\* three columns resolved to 101 characters, scaled to 47 and corrected to 48
C21_Witness ==
    /\ MultiColumn /\ DocumentedBase = 48
    /\ Resolved = <<50, 1, 50>>
    /\ Final = <<24, 1, 23>>
    /\ Len(RowLine) = 48

(* C22: in a multi-column row every column's final width is at least one    *)
(* character, so every non-empty cell puts at least one character on the    *)
(* row line.                                                                *)
C22_EveryColumnHasWidth ==
    MultiColumn => \A i \in 1..Len(Row) : Final[i] >= 1

\* ---------------------------------------------------------------------------
\* C23: block_text is used on 58mm paper only: on 80mm paper nothing (data
\* row, header row or table rule row) is sent through block_text.
BlockTexts == SelectSeq(Output, LAMBDA c : c.op = "block_text")

C23_BlockTextOnlyOnNarrowPaper ==
    (Walked /\ paper_size = "80mm") => BlockTexts = <<>>

\* ---------------------------------------------------------------------------
\* C24: when the sink's style call raises while a heading or a centered text
\* is rendered, the text is still sent, by the fallback, behind
\* max(0, (W - len) div 2) blanks, W the default width of the paper and
\* font, and no exception leaves the element.
StyleRaised == nproc >= 1 /\ 0 \in element.F /\ pc \in {"walk", "done", "raised"}
Padding(txt) == Max(0, (char_width(paper_size, font_size) - Len(txt)) \div 2)

C24_StyleFailureFallsBack ==
    StyleRaised =>
        /\ pc # "raised"
        /\ element.tag = "h" =>
              RowCalls = << text(Rep(" ", Padding(element.text)) \o element.text \o <<NL>>) >>

\* ---------------------------------------------------------------------------
\* C25: whatever sink calls raise, the text of a heading is passed to the
\* sink at most once: the fallback never sends again what the first path
\* already sent.
HeadingEmissions ==
    SelectSeq(Output, LAMBDA c :
        /\ c.op = "text"
        /\ \/ c.txt = element.text
           \/ c.txt = Rep(" ", Padding(element.text)) \o element.text \o <<NL>>)

C25_HeadingTextOnce ==
    (nproc >= 1 /\ element.tag = "h" /\ element.text # <<>>) => Len(HeadingEmissions) <= 1

\* ---------------------------------------------------------------------------
\* C26: a QR element without payload (an img with data-type="qr" and no or
\* an empty data-value, or a <qr> tag with empty text) is skipped: nothing
\* reaches the sink for it, and the walk goes on.
EmptyQr ==
    /\ Handled
    /\ element.text = <<>>
    /\ element.tag = "qr" \/ (element.tag = "img" /\ element.src = "-" /\ element.data_type = "qr")

C26_EmptyQrSkipped == EmptyQr => Output = <<>>

\* ---------------------------------------------------------------------------
\* C27: the size handed to image.resize has a width and a height of at
\* least 1, for every source of at least 1x1 and every given width and
\* height, on both papers.
Target == img_target_size(element, paper_size)

C27_ResizeTargetPositive ==
    (nproc >= 1 /\ element.tag = "img" /\ element.src = "ok"
        /\ element.orig_w >= 1 /\ element.orig_h >= 1) =>
            Target[1] >= 1 /\ Target[2] >= 1

\* ---------------------------------------------------------------------------
\* the number of places at which sub occurs in s
Occurrences(sub, s) ==
    Cardinality({k \in 1..(Len(s) - Len(sub) + 1) : SubSeq(s, k, k + Len(sub) - 1) = sub})
\* the texts written directly in the cells of a table, at every depth
RECURSIVE TextsOfCells(_)
TextsOfCells(rows) ==
    UNION { UNION { {rows[i][j].text}
                    \cup UNION {TextsOfCells(cell_tables(rows[i][j])[t].rows)
                                    : t \in 1..Len(cell_tables(rows[i][j]))}
                        : j \in 1..Len(rows[i]) }
                : i \in 1..Len(rows) }
LinesHolding(txt) == {k \in 1..Len(RowCalls) : Occurrences(txt, RowCalls[k].txt) >= 1}

(* C28: the text of each td/th cell of a table is part of exactly one row   *)
(* line sent to the sink, also when a cell holds a table: the rows and      *)
(* cells of the inner table are not counted again as cells of the row       *)
(* around them.                                                             *)
C28_CellTextInOneRow ==
    (Handled /\ element.tag = "table" /\ element.rows \in NestedTables) =>
        \A txt \in TextsOfCells(element.rows) \ {<<>>} : Cardinality(LinesHolding(txt)) = 1

\* ---------------------------------------------------------------------------
\* the lines of the width test as documented: the numbered line is 65 digits
\* 1..9, 0 repeating; the rule is as long as the default width of the paper
\* in the normal font
Ruler == [i \in 1..65 |-> <<"1", "2", "3", "4", "5", "6", "7", "8", "9", "0">>[((i - 1) % 10) + 1]]
RuleOf(ch) == Rep(ch, char_width(paper_size, "normal"))
TestLines(ch) ==
    << text(TestHeader \o PaperChars(paper_size) \o <<":", NL>>),
       text(Ruler \o <<NL>>),
       text(TestLabel \o <<NL>>),
       text(RuleOf(ch) \o <<NL>>) >>
TestTexts(ch) == {TestLines(ch)[k] : k \in 1..4}
\* the sink's log opens with the line-spacing command, then the four lines,
\* and the element handled last begins behind them
TestFirst(ch) ==
    /\ Len(p.log) >= 5
    /\ p.log[1] = raw(<<ESC, 51, spacing_value(line_spacing)>>)
    /\ SubSeq(p.log, 2, 5) = TestLines(ch)
    /\ nproc >= 1 => mark >= 5
NoTestLine(ch) == \A k \in 1..Len(p.log) : p.log[k] \notin TestTexts(ch)

\* C29 as stated: the rule line is made of underscores
C29_WidthTestUnderscores ==
    Walked => IF test_width THEN TestFirst("_") ELSE NoTestLine("_")

(* C29: with test_width the sink receives, right after the line-spacing     *)
(* command and before anything of the document, the header line, the        *)
(* 65-digit numbered line, the label line and a rule of "=" characters as   *)
(* long as the default width of the paper in the normal font; without       *)
(* test_width none of these lines is sent.                                  *)
C29_WidthTestFirst ==
    Walked => IF test_width THEN TestFirst("=") ELSE NoTestLine("=")

\* the width test on 80mm paper with the small font, and a heading behind it
C29_Witness ==
    /\ test_width /\ paper_size = "80mm" /\ font_size = "small"
    /\ pc = "walk" /\ nproc = 1 /\ element.tag = "h" /\ element.text = Title
    /\ p.log[5] = text(Rep("=", 76) \o <<NL>>)
    /\ mark = 6

\* ---------------------------------------------------------------------------
\* C30: every call of print_html that send_printer makes for a request
\* carries the request's own size, font_size, test_width and line_spacing,
\* and a later method for a system printer is only tried when every earlier
\* one did not succeed.
CarriesRequest(call) ==
    /\ call.paper_size = paper_size
    /\ call.font_size = font_size
    /\ call.test_width = test_width
    /\ call.line_spacing = line_spacing

C30_AttemptsCarryRequest ==
    \A k \in 1..Len(send.calls) :
        /\ CarriesRequest(send.calls[k])
        /\ \A j \in 1..(k - 1) : ~send.calls[j].success

====
